---- MODULE Spec2Model ----
(***************************************************************************)
(* A model of student_travel_planner.py: the module-level API_KEY, the     *)
(* retrying generator generate_student_itinerary, the renderer             *)
(* display_itinerary_streamlit and one run of the Streamlit script main.   *)
(*                                                                         *)
(* Python strings are sequences of one-character strings, so that          *)
(* concatenation (f-strings) is \o and the test `"successfully" in s` is   *)
(* a real substring search.  Money is counted in eighths of a dollar:      *)
(* binary fractions, on which float addition is exact and on which the     *)
(* ".2f" format has to round.                                              *)
(***************************************************************************)
EXTENDS Integers, Sequences, FiniteSets, TLC

VARIABLES API_KEY, pc, caller, destination, days, interests, attempt,
          last_error, status_message, itinerary_data, trace, ui

vars == << API_KEY, pc, caller, destination, days, interests, attempt,
           last_error, status_message, itinerary_data, trace, ui >>

-----------------------------------------------------------------------------
(* Bounds of the model. *)

\* The longest itinerary handed to the renderer on its own.
MaxDays == 2

\* The longest plan of one day of such an itinerary.
MaxActivities == 2

-----------------------------------------------------------------------------
(* The program's constants and string literals. *)

MAX_RETRIES == 5

INITIAL_DELAY == 1

\* st.number_input("Number of Days", min_value=1, max_value=14, value=3)
MIN_DAYS == 1

MAX_DAYS == 14

DEFAULT_DAYS == 3


\* "AIza"  (the literal default of os.environ.get, cut to four characters)
FALLBACK_KEY ==
    << "A", "I", "z", "a" >>

\* "Error: GEMINI_API_KEY is missing. Please set it as an environment variable."
MissingKeyStatus ==
    << "E", "r", "r", "o", "r", ":", " ", "G", "E", "M", "I", "N", "I", "_", "A", "P", "I",
       "_", "K", "E", "Y", " ", "i", "s", " ", "m", "i", "s", "s", "i", "n", "g", ".", " ",
       "P", "l", "e", "a", "s", "e", " ", "s", "e", "t", " ", "i", "t", " ", "a", "s", " ",
       "a", "n", " ", "e", "n", "v", "i", "r", "o", "n", "m", "e", "n", "t", " ", "v", "a",
       "r", "i", "a", "b", "l", "e", "." >>

\* "Error initializing Gemini client: "
ClientErrorPrefix ==
    << "E", "r", "r", "o", "r", " ", "i", "n", "i", "t", "i", "a", "l", "i", "z", "i", "n",
       "g", " ", "G", "e", "m", "i", "n", "i", " ", "c", "l", "i", "e", "n", "t", ":", " " >>

\* "Itinerary generated successfully!"
SuccessStatus ==
    << "I", "t", "i", "n", "e", "r", "a", "r", "y", " ", "g", "e", "n", "e", "r", "a", "t",
       "e", "d", " ", "s", "u", "c", "c", "e", "s", "s", "f", "u", "l", "l", "y", "!" >>

\* "Unknown error occurred before first API call."
UnknownError ==
    << "U", "n", "k", "n", "o", "w", "n", " ", "e", "r", "r", "o", "r", " ", "o", "c", "c",
       "u", "r", "r", "e", "d", " ", "b", "e", "f", "o", "r", "e", " ", "f", "i", "r", "s",
       "t", " ", "A", "P", "I", " ", "c", "a", "l", "l", "." >>

\* "AI response format error (Day "
FormatErrorHead ==
    << "A", "I", " ", "r", "e", "s", "p", "o", "n", "s", "e", " ", "f", "o", "r", "m", "a",
       "t", " ", "e", "r", "r", "o", "r", " ", "(", "D", "a", "y", " " >>

\* "): Failed to parse JSON response. Details: "
FormatErrorTail ==
    << ")", ":", " ", "F", "a", "i", "l", "e", "d", " ", "t", "o", " ", "p", "a", "r", "s",
       "e", " ", "J", "S", "O", "N", " ", "r", "e", "s", "p", "o", "n", "s", "e", ".", " ",
       "D", "e", "t", "a", "i", "l", "s", ":", " " >>

\* "Gemini API connection error (Day "
ConnectionErrorHead ==
    << "G", "e", "m", "i", "n", "i", " ", "A", "P", "I", " ", "c", "o", "n", "n", "e", "c",
       "t", "i", "o", "n", " ", "e", "r", "r", "o", "r", " ", "(", "D", "a", "y", " " >>

\* "): "
ConnectionErrorTail ==
    << ")", ":", " " >>

\* "Failed to generate itinerary after multiple retries. Last known error: "
ExhaustedPrefix ==
    << "F", "a", "i", "l", "e", "d", " ", "t", "o", " ", "g", "e", "n", "e", "r", "a", "t",
       "e", " ", "i", "t", "i", "n", "e", "r", "a", "r", "y", " ", "a", "f", "t", "e", "r",
       " ", "m", "u", "l", "t", "i", "p", "l", "e", " ", "r", "e", "t", "r", "i", "e", "s",
       ".", " ", "L", "a", "s", "t", " ", "k", "n", "o", "w", "n", " ", "e", "r", "r", "o",
       "r", ":", " " >>

\* "successfully"
Successfully ==
    << "s", "u", "c", "c", "e", "s", "s", "f", "u", "l", "l", "y" >>

\* "CRITICAL ERROR: The GEMINI_API_KEY is not set. The planner will not function."  (after its emoji)
CriticalError ==
    << "C", "R", "I", "T", "I", "C", "A", "L", " ", "E", "R", "R", "O", "R", ":", " ", "T",
       "h", "e", " ", "G", "E", "M", "I", "N", "I", "_", "A", "P", "I", "_", "K", "E", "Y",
       " ", "i", "s", " ", "n", "o", "t", " ", "s", "e", "t", ".", " ", "T", "h", "e", " ",
       "p", "l", "a", "n", "n", "e", "r", " ", "w", "i", "l", "l", " ", "n", "o", "t", " ",
       "f", "u", "n", "c", "t", "i", "o", "n", "." >>

\* "Please fill in all the required fields."
FillInWarning ==
    << "P", "l", "e", "a", "s", "e", " ", "f", "i", "l", "l", " ", "i", "n", " ", "a", "l",
       "l", " ", "t", "h", "e", " ", "r", "e", "q", "u", "i", "r", "e", "d", " ", "f", "i",
       "e", "l", "d", "s", "." >>

\* "N/A"
NotAvailable ==
    << "N", "/", "A" >>

-----------------------------------------------------------------------------
(* Texts the environment can produce: exception messages and form entries. *)


\* "the JSON object must be str, bytes or bytearray, not NoneType"  (str(e) of json.loads(None))
TypeErrorText ==
    << "t", "h", "e", " ", "J", "S", "O", "N", " ", "o", "b", "j", "e", "c", "t", " ", "m",
       "u", "s", "t", " ", "b", "e", " ", "s", "t", "r", ",", " ", "b", "y", "t", "e", "s",
       " ", "o", "r", " ", "b", "y", "t", "e", "a", "r", "r", "a", "y", ",", " ", "n", "o",
       "t", " ", "N", "o", "n", "e", "T", "y", "p", "e" >>

\* "Expecting value: line 1 column 1 (char 0)"  (str(e) of a JSONDecodeError)
ExpectingValue ==
    << "E", "x", "p", "e", "c", "t", "i", "n", "g", " ", "v", "a", "l", "u", "e", ":", " ",
       "l", "i", "n", "e", " ", "1", " ", "c", "o", "l", "u", "m", "n", " ", "1", " ", "(",
       "c", "h", "a", "r", " ", "0", ")" >>

\* "timed out"  (a transport exception)
TimedOut ==
    << "t", "i", "m", "e", "d", " ", "o", "u", "t" >>

\* "request was not successfully sent"  (a transport exception)
NotSent ==
    << "r", "e", "q", "u", "e", "s", "t", " ", "w", "a", "s", " ", "n", "o", "t", " ", "s",
       "u", "c", "c", "e", "s", "s", "f", "u", "l", "l", "y", " ", "s", "e", "n", "t" >>

\* "API key not valid"  (a client or authentication exception)
BadKey ==
    << "A", "P", "I", " ", "k", "e", "y", " ", "n", "o", "t", " ", "v", "a", "l", "i", "d" >>

\* "client was not successfully configured"  (a client exception)
NotConfigured ==
    << "c", "l", "i", "e", "n", "t", " ", "w", "a", "s", " ", "n", "o", "t", " ", "s", "u",
       "c", "c", "e", "s", "s", "f", "u", "l", "l", "y", " ", "c", "o", "n", "f", "i", "g",
       "u", "r", "e", "d" >>

\* "Rome"
Rome ==
    << "R", "o", "m", "e" >>

\* "art"
Art ==
    << "a", "r", "t" >>

\* "key"
EnvKey ==
    << "k", "e", "y" >>
-----------------------------------------------------------------------------
(* Python's built-ins, as far as the program uses them. *)

\* bool(s) of a str: the empty string is falsy.
StrTruthy(s) == Len(s) > 0

\* bool(n) of an int: zero is falsy.
IntTruthy(n) == n # 0

\* os.environ.get(name, default) on an environment held as a record.
os_environ_get(environ, name, default) ==
    IF name \in DOMAIN environ THEN environ[name] ELSE default

Digits == << "0", "1", "2", "3", "4", "5", "6", "7", "8", "9" >>

\* str(n) of a non-negative int.
RECURSIVE Str(_)
Str(n) ==
    IF n < 10 THEN << Digits[n + 1] >>
    ELSE Str(n \div 10) \o << Digits[(n % 10) + 1] >>

\* `sub in s` of two strs.
Contains(s, sub) ==
    \E i \in 1..(Len(s) - Len(sub) + 1) : SubSeq(s, i, i + Len(sub) - 1) = sub

\* sum(...) of a sequence of numbers.
RECURSIVE Sum(_)
Sum(xs) == IF xs = << >> THEN 0 ELSE Head(xs) + Sum(Tail(xs))

-----------------------------------------------------------------------------
(* Response bodies, JSON documents and the values json.loads makes of them. *)

\* response.text is None: the service answered without a text part.
NoText == [form |-> "none"]

\* A body that is no JSON document.
MalformedText == [form |-> "malformed"]

\* A body that is the JSON document doc.
JsonText(doc) == [form |-> "json", doc |-> doc]

JsonNull == [json |-> "null"]

\* The JSON object {}.
JsonEmptyObject == [json |-> "object"]

\* A JSON array; its elements are written as the dicts they decode to.
JsonArray(elements) == [json |-> "array", elements |-> elements]

None == [type |-> "NoneType"]

EmptyDict == [type |-> "dict"]

List(items) == [type |-> "list", items |-> items]

\* The Python value of a JSON document: null is None, an object a dict, an
\* array a list.
Decode(doc) ==
    CASE doc.json = "null" -> None
      [] doc.json = "object" -> EmptyDict
      [] doc.json = "array" -> List(doc.elements)

\* json.loads(text): the value, or the exception raised and its str().
json_loads(text) ==
    CASE text.form = "none" ->
            [raised |-> "TypeError", detail |-> TypeErrorText, value |-> None]
      [] text.form = "malformed" ->
            [raised |-> "JSONDecodeError", detail |-> ExpectingValue, value |-> None]
      [] text.form = "json" ->
            [raised |-> "", detail |-> << >>, value |-> Decode(text.doc)]

\* bool(v) of a decoded value: None, {} and [] are falsy.
Truthy(v) == v.type = "list" /\ Len(v.items) > 0

\* ITINERARY_SCHEMA: an array of objects with the four required day fields,
\* whose plan is an array of objects with the three required activity fields.
ActivityRequired == {"time", "activity", "estimated_cost_usd"}

DayRequired == {"day", "theme", "plan", "efficiency_tip"}

ITINERARY_SCHEMA(v) ==
    /\ v.type = "list"
    /\ \A i \in 1..Len(v.items) :
          /\ DayRequired \subseteq DOMAIN v.items[i]
          /\ \A j \in 1..Len(v.items[i].plan) :
                ActivityRequired \subseteq DOMAIN v.items[i].plan[j]

-----------------------------------------------------------------------------
(* The pieces of generate_student_itinerary. *)

\* A loop that runs once more than the budget.
RangeHasNextUnbounded(i) == i < MAX_RETRIES + 1

\* for attempt in range(MAX_RETRIES): the loop body runs for index i.
RangeHasNext(i) == i < MAX_RETRIES

\* A backoff that also sleeps after the last attempt.
ShouldSleepAlways(i) == i < MAX_RETRIES

\* if attempt < MAX_RETRIES - 1
ShouldSleep(i) == i < MAX_RETRIES - 1

\* A delay that grows by a step instead of doubling.
DelayLinear(i) == INITIAL_DELAY * (i + 1)

\* delay = INITIAL_DELAY * (2 ** attempt)
Delay(i) == INITIAL_DELAY * (2 ^ i)

\* f"AI response format error (Day {attempt+1}): Failed to parse JSON response. Details: {e}"
FormatError(i, e) == FormatErrorHead \o Str(i + 1) \o FormatErrorTail \o e

\* f"Gemini API connection error (Day {attempt+1}): {e}"
ConnectionError(i, e) == ConnectionErrorHead \o Str(i + 1) \o ConnectionErrorTail \o e

\* An except clause that forgets to store its error.
KeepLastError(old, new) == old

\* What an except clause leaves in last_error: the error of this attempt.
StoreLastError(old, new) == new

\* f"Failed to generate itinerary after multiple retries. Last known error: {last_error}"
ExhaustedStatus(err) == ExhaustedPrefix \o err

\* f"Error initializing Gemini client: {e}"
ClientErrorStatus(e) == ClientErrorPrefix \o e

-----------------------------------------------------------------------------
(* display_itinerary_streamlit. *)

\* A default of one eighth for an activity without a cost.
CostOrOne(activity) ==
    IF "estimated_cost_usd" \in DOMAIN activity THEN activity.estimated_cost_usd ELSE 1

\* activity.get("estimated_cost_usd", 0)
Cost(activity) ==
    IF "estimated_cost_usd" \in DOMAIN activity THEN activity.estimated_cost_usd ELSE 0

\* day_plan.get("plan", [])
Plan(day_plan) == IF "plan" \in DOMAIN day_plan THEN day_plan.plan ELSE << >>

\* sum(activity.get("estimated_cost_usd", 0) for activity in plan), in eighths.
daily_cost(plan) == Sum([j \in 1..Len(plan) |-> Cost(plan[j])])

\* sum(sum(...) for day_plan in itinerary), in eighths.
total_cost(itinerary) ==
    Sum([i \in 1..Len(itinerary) |-> daily_cost(Plan(itinerary[i]))])

\* The cents that format(x, ".2f") shows for x = e/8 dollars: e/8 is exact in
\* binary, so the format rounds 12.5 * e cents correctly, a tie to even.
Round2(e) ==
    LET halves == 25 * e
        low == halves \div 2
    IN  IF halves % 2 = 0 THEN low
        ELSE IF low % 2 = 0 THEN low ELSE low + 1

\* f"${x:.2f}" for an amount of c cents.
Money(c) ==
    << "$" >> \o Str(c \div 100) \o << "." >> \o Str((c % 100) \div 10) \o Str(c % 10)

\* with st.expander(f"Day {day_num}: {theme} (Cost: ${daily_cost:.2f})"): st.table(...)
Expander(day_plan) ==
    [kind |-> "expander",
     day |-> IF "day" \in DOMAIN day_plan THEN Str(day_plan.day) ELSE NotAvailable,
     amount |-> Money(Round2(daily_cost(Plan(day_plan)))),
     rows |-> [j \in 1..Len(Plan(day_plan)) |-> Money(Round2(Cost(Plan(day_plan)[j])))]]

\* What display_itinerary_streamlit(itinerary) renders, in order.
Render(itinerary) ==
    IF ~Truthy(itinerary) THEN << >>
    ELSE << [kind |-> "total", amount |-> Money(Round2(total_cost(itinerary.items)))] >>
         \o [i \in 1..Len(itinerary.items) |-> Expander(itinerary.items[i])]

-----------------------------------------------------------------------------
(* main: the form and its check. *)

\* st.number_input(min_value=1, max_value=14): the widget yields the entry
\* brought into its range.
number_input(entry) ==
    IF entry < MIN_DAYS THEN MIN_DAYS
    ELSE IF entry > MAX_DAYS THEN MAX_DAYS ELSE entry

\* A check that leaves the interests out.
AllButInterests(d, n, i) == StrTruthy(d) /\ IntTruthy(n)

\* all([destination, days, interests])
AllFilled(d, n, i) == StrTruthy(d) /\ IntTruthy(n) /\ StrTruthy(i)

\* if "successfully" in status_message
IsSuccessNotice(status) == Contains(status, Successfully)

-----------------------------------------------------------------------------
(* What the environment can supply. *)

\* The process environment at import: GEMINI_API_KEY unset, set to the
\* empty string, or set to a key.
Environments ==
    { [PATH |-> << >>],
      [PATH |-> << >>, GEMINI_API_KEY |-> << >>],
      [PATH |-> << >>, GEMINI_API_KEY |-> EnvKey] }

\* Text typed into a text field, or passed as an argument.
Destinations == { << >>, Rome }

Interests == { << >>, Art }

\* Numbers typed into the day field.
DayEntries == { 0, DEFAULT_DAYS, MAX_DAYS + 1 }

\* The arguments of a direct call: a usual request, and one with nothing
\* filled in, which the generator does not check.
DirectArguments == { << Rome, DEFAULT_DAYS, Art >>, << << >>, 0, << >> >> }

\* str(e) of an exception of genai.Client(...) and of generate_content(...).
ClientDetails == { BadKey, NotConfigured }

TransportDetails == { TimedOut, NotSent }

Activity(time, cost) ==
    [time |-> time, activity |-> "walk", estimated_cost_usd |-> cost]

Day(n, plan) ==
    [day |-> n, theme |-> "theme", plan |-> plan, efficiency_tip |-> "tip"]

\* The itinerary whose costs are [[5, 0, 10], [20]] dollars.
ExampleItinerary ==
    << Day(1, << Activity("Morning", 40), Activity("Lunch", 0), Activity("Evening", 80) >>),
       Day(2, << Activity("Morning", 160) >>) >>

\* A day whose only activity carries no cost, and a day without a tip.
LooseItinerary ==
    << [day |-> 1, theme |-> "theme", plan |-> << [time |-> "Morning", activity |-> "walk"] >>] >>

\* The bodies of a transport-successful response.
ResponseTexts ==
    { NoText, MalformedText, JsonText(JsonNull), JsonText(JsonEmptyObject),
      JsonText(JsonArray(<< >>)), JsonText(JsonArray(ExampleItinerary)),
      JsonText(JsonArray(LooseItinerary)) }

\* Costs of one activity, in eighths of a dollar: 12.5 cents and 25 cents
\* (an activity may also carry no cost at all).
CostValues == { 1, 2 }

Activities ==
    { Activity("Morning", c) : c \in CostValues } \cup { [time |-> "Morning", activity |-> "walk"] }

Plans == UNION { [1..n -> Activities] : n \in 0..MaxActivities }

\* The itinerary whose days, numbered from 1, have the given plans.
Itinerary(plans) == [i \in 1..Len(plans) |-> Day(i, plans[i])]

-----------------------------------------------------------------------------
(* The state. *)

ClientEvent == [ev |-> "genai.Client"]

CallEvent(by, d, n, i) ==
    [ev |-> "generate_student_itinerary", by |-> by, request |-> << d, n, i >>]

\* One client.models.generate_content(contents=[user_query]) and how it ended.
AttemptEvent(i, request, outcome) ==
    [ev |-> "generate_content", attempt |-> i, request |-> request, outcome |-> outcome]

SleepEvent(seconds) == [ev |-> "time.sleep", seconds |-> seconds]

Raised(e) == [raised |-> TRUE, detail |-> e]

Responded(text) == [raised |-> FALSE, text |-> text]

Notice(kind, text) == [kind |-> kind, text |-> text]

NotReturned == << >>

Blank ==
    /\ pc = "start"
    /\ caller = "none"
    /\ destination = << >>
    /\ days = DEFAULT_DAYS
    /\ interests = << >>
    /\ attempt = 0
    /\ last_error = << >>
    /\ status_message = NotReturned
    /\ trace = << >>
    /\ ui = << >>

\* The module is imported: API_KEY is read from the environment once.
Init ==
    /\ \E environ \in Environments :
          API_KEY = os_environ_get(environ, "GEMINI_API_KEY", FALLBACK_KEY)
    /\ itinerary_data = None
    /\ Blank

\* The renderer is about to be called on its own, with an itinerary of at
\* most MaxDays days, each of at most MaxActivities activities.
InitDisplay ==
    /\ API_KEY = FALLBACK_KEY
    /\ \E n \in 0..MaxDays : \E plans \in [1..n -> Plans] :
          itinerary_data = List(Itinerary(plans))
    /\ Blank

-----------------------------------------------------------------------------
(* main, up to the call of the generator. *)

\* if not API_KEY: st.error(...); return
MainNoKey ==
    /\ pc = "start"
    /\ ~StrTruthy(API_KEY)
    /\ ui' = Append(ui, Notice("error", CriticalError))
    /\ caller' = "main"
    /\ pc' = "exit"
    /\ UNCHANGED << API_KEY, destination, days, interests, attempt, last_error,
                    status_message, itinerary_data, trace >>

\* The script runs with the button not pressed: the form is drawn, no more.
MainIdle ==
    /\ pc = "start"
    /\ StrTruthy(API_KEY)
    /\ caller' = "main"
    /\ pc' = "exit"
    /\ UNCHANGED << API_KEY, destination, days, interests, attempt, last_error,
                    status_message, itinerary_data, trace, ui >>

\* if submitted: if not all([...]): st.warning(...); return
MainRejected ==
    /\ pc = "start"
    /\ StrTruthy(API_KEY)
    /\ \E d \in Destinations, entry \in DayEntries, i \in Interests :
          /\ ~AllFilled(d, number_input(entry), i)
          /\ destination' = d
          /\ days' = number_input(entry)
          /\ interests' = i
    /\ ui' = Append(ui, Notice("warning", FillInWarning))
    /\ caller' = "main"
    /\ pc' = "exit"
    /\ UNCHANGED << API_KEY, attempt, last_error, status_message, itinerary_data, trace >>

\* if submitted and all fields are filled: generate_student_itinerary(...)
MainAccepted ==
    /\ pc = "start"
    /\ StrTruthy(API_KEY)
    /\ \E d \in Destinations, entry \in DayEntries, i \in Interests :
          /\ AllFilled(d, number_input(entry), i)
          /\ destination' = d
          /\ days' = number_input(entry)
          /\ interests' = i
          /\ trace' = Append(trace, CallEvent("main", d, number_input(entry), i))
    /\ caller' = "main"
    /\ pc' = "entry"
    /\ UNCHANGED << API_KEY, attempt, last_error, status_message, itinerary_data, ui >>

\* Another caller (a test, a script) calls generate_student_itinerary.
DirectCall ==
    /\ pc = "start"
    /\ \E args \in DirectArguments :
          /\ destination' = args[1]
          /\ days' = args[2]
          /\ interests' = args[3]
          /\ trace' = Append(trace, CallEvent("direct", args[1], args[2], args[3]))
    /\ caller' = "direct"
    /\ pc' = "entry"
    /\ UNCHANGED << API_KEY, attempt, last_error, status_message, itinerary_data, ui >>

-----------------------------------------------------------------------------
(* generate_student_itinerary. *)

Return(status, data) ==
    /\ status_message' = status
    /\ itinerary_data' = data
    /\ pc' = "returned"

\* A generator without the credential check.
KeyIsMissingNever(key) == FALSE

\* if not API_KEY
KeyIsMissing(key) == ~StrTruthy(key)

\* return "Error: GEMINI_API_KEY is missing. ...", None

GenMissingKey ==
    /\ pc = "entry"
    /\ KeyIsMissing(API_KEY)
    /\ Return(MissingKeyStatus, None)
    /\ UNCHANGED << API_KEY, caller, destination, days, interests, attempt, last_error,
                    trace, ui >>

\* client = genai.Client(api_key=API_KEY) raises
GenClientFails ==
    /\ pc = "entry"
    /\ ~KeyIsMissing(API_KEY)
    /\ trace' = Append(trace, ClientEvent)
    /\ \E e \in ClientDetails : Return(ClientErrorStatus(e), None)
    /\ UNCHANGED << API_KEY, caller, destination, days, interests, attempt, last_error, ui >>

\* The client is built, last_error gets its placeholder and the loop starts.
GenClientBuilt ==
    /\ pc = "entry"
    /\ ~KeyIsMissing(API_KEY)
    /\ trace' = Append(trace, ClientEvent)
    /\ last_error' = UnknownError
    /\ attempt' = 0
    /\ pc' = IF RangeHasNext(0) THEN "try" ELSE "exhausted"
    /\ UNCHANGED << API_KEY, caller, destination, days, interests, status_message,
                    itinerary_data, ui >>

UserQuery == << destination, days, interests >>

\* generate_content raises: except Exception as e
AttemptRaises ==
    /\ pc = "try"
    /\ \E e \in TransportDetails :
          /\ trace' = Append(trace, AttemptEvent(attempt, UserQuery, Raised(e)))
          /\ last_error' = StoreLastError(last_error, ConnectionError(attempt, e))
    /\ pc' = "backoff"
    /\ UNCHANGED << API_KEY, caller, destination, days, interests, attempt,
                    status_message, itinerary_data, ui >>

\* generate_content returns and json.loads(response.text) returns: success
AttemptParsed ==
    /\ pc = "try"
    /\ \E text \in ResponseTexts :
          /\ json_loads(text).raised = ""
          /\ trace' = Append(trace, AttemptEvent(attempt, UserQuery, Responded(text)))
          /\ Return(SuccessStatus, json_loads(text).value)
    /\ UNCHANGED << API_KEY, caller, destination, days, interests, attempt, last_error, ui >>

\* json.loads raises JSONDecodeError: the inner except clause
AttemptMalformed ==
    /\ pc = "try"
    /\ \E text \in ResponseTexts :
          /\ json_loads(text).raised = "JSONDecodeError"
          /\ trace' = Append(trace, AttemptEvent(attempt, UserQuery, Responded(text)))
          /\ last_error' =
                StoreLastError(last_error, FormatError(attempt, json_loads(text).detail))
    /\ pc' = "backoff"
    /\ UNCHANGED << API_KEY, caller, destination, days, interests, attempt,
                    status_message, itinerary_data, ui >>

\* json.loads raises another exception (TypeError on None): the outer clause
AttemptUnreadable ==
    /\ pc = "try"
    /\ \E text \in ResponseTexts :
          /\ json_loads(text).raised \notin {"", "JSONDecodeError"}
          /\ trace' = Append(trace, AttemptEvent(attempt, UserQuery, Responded(text)))
          /\ last_error' =
                StoreLastError(last_error, ConnectionError(attempt, json_loads(text).detail))
    /\ pc' = "backoff"
    /\ UNCHANGED << API_KEY, caller, destination, days, interests, attempt,
                    status_message, itinerary_data, ui >>

\* if attempt < MAX_RETRIES - 1: time.sleep(delay); then the next index
Backoff ==
    /\ pc = "backoff"
    /\ trace' = IF ShouldSleep(attempt)
                THEN Append(trace, SleepEvent(Delay(attempt)))
                ELSE trace
    /\ attempt' = attempt + 1
    /\ pc' = IF RangeHasNext(attempt + 1) THEN "try" ELSE "exhausted"
    /\ UNCHANGED << API_KEY, caller, destination, days, interests, last_error,
                    status_message, itinerary_data, ui >>

\* return f"Failed to generate itinerary ... {last_error}", None
GenExhausted ==
    /\ pc = "exhausted"
    /\ Return(ExhaustedStatus(last_error), None)
    /\ UNCHANGED << API_KEY, caller, destination, days, interests, attempt, last_error,
                    trace, ui >>

-----------------------------------------------------------------------------
(* main, after the generator returned; the renderer on its own. *)

\* if "successfully" in status_message: st.success(...); display_itinerary_streamlit(...)
ShowSuccess ==
    /\ pc = "returned"
    /\ caller = "main"
    /\ IsSuccessNotice(status_message)
    /\ ui' = Append(ui, Notice("success", status_message)) \o Render(itinerary_data)
    /\ pc' = "exit"
    /\ UNCHANGED << API_KEY, caller, destination, days, interests, attempt, last_error,
                    status_message, itinerary_data, trace >>

\* else: st.error(status_message)
ShowError ==
    /\ pc = "returned"
    /\ caller = "main"
    /\ ~IsSuccessNotice(status_message)
    /\ ui' = Append(ui, Notice("error", status_message))
    /\ pc' = "exit"
    /\ UNCHANGED << API_KEY, caller, destination, days, interests, attempt, last_error,
                    status_message, itinerary_data, trace >>

\* display_itinerary_streamlit(itinerary) called on its own.
Display ==
    /\ pc = "start"
    /\ caller = "none"
    /\ ui' = ui \o Render(itinerary_data)
    /\ caller' = "display"
    /\ pc' = "exit"
    /\ UNCHANGED << API_KEY, destination, days, interests, attempt, last_error,
                    status_message, itinerary_data, trace >>

Next ==
    \/ MainNoKey
    \/ MainIdle
    \/ MainRejected
    \/ MainAccepted
    \/ DirectCall
    \/ GenMissingKey
    \/ GenClientFails
    \/ GenClientBuilt
    \/ AttemptRaises
    \/ AttemptParsed
    \/ AttemptMalformed
    \/ AttemptUnreadable
    \/ Backoff
    \/ GenExhausted
    \/ ShowSuccess
    \/ ShowError

Spec == Init /\ [][Next]_vars

\* The program is sequential and every call returns or raises: a step that
\* can be taken is taken.
FairSpec == Init /\ [][Next]_vars /\ WF_vars(Next)

\* The renderer applied to every itinerary within the bounds.
DisplaySpec == InitDisplay /\ [][Display]_vars

-----------------------------------------------------------------------------
(* What the properties read off the state. *)

\* The generate_content calls made so far, in order.
Attempts == SelectSeq(trace, LAMBDA e : e.ev = "generate_content")

\* The time.sleep calls made so far, in order.
Sleeps == SelectSeq(trace, LAMBDA e : e.ev = "time.sleep")

\* The effects on the outside world: everything but the call record itself.
Effects == SelectSeq(trace, LAMBDA e : e.ev # "generate_student_itinerary")

SleptSeconds == Sum([k \in 1..Len(Sleeps) |-> Sleeps[k].seconds])

\* The attempt got a body that is a JSON document.
GotJson(a) == ~a.outcome.raised /\ a.outcome.text.form = "json"

\* The attempt got a body that is a JSON document of the itinerary schema.
GotItinerary(a) == GotJson(a) /\ ITINERARY_SCHEMA(Decode(a.outcome.text.doc))

\* The kind of failure of an attempt: "transport", "none", "malformed".
FailureKind(a) == IF a.outcome.raised THEN "transport" ELSE a.outcome.text.form

\* The text of the error an attempt ended with.
FailureDetail(a) ==
    IF a.outcome.raised THEN a.outcome.detail
    ELSE IF a.outcome.text.form = "none" THEN TypeErrorText ELSE ExpectingValue

HasReturned == pc \in {"returned", "exit"} /\ status_message # NotReturned

\* Every attempt of the budget was made and the last one did not parse.
AllFailed ==
    /\ Len(Attempts) = MAX_RETRIES
    /\ ~GotJson(Attempts[MAX_RETRIES])

HasNotice(kind) == \E k \in 1..Len(ui) : ui[k].kind = kind

EndsWith(s, tail) ==
    Len(tail) <= Len(s) /\ SubSeq(s, Len(s) - Len(tail) + 1, Len(s)) = tail

StartsWith(s, head) == Len(head) <= Len(s) /\ SubSeq(s, 1, Len(head)) = head

-----------------------------------------------------------------------------
(* The properties. *)

\* C1: with no credential, a call of generate_student_itinerary returns the
\* missing-key error and None at once: it builds no client, sends no
\* request and never sleeps.
C1_MissingKeyFailsAtOnce ==
    (~StrTruthy(API_KEY) /\ trace # << >>) =>
        /\ Effects = << >>
        /\ pc \in {"entry", "returned"}
        /\ pc = "returned" => status_message = MissingKeyStatus /\ itinerary_data = None

C1_Witness ==
    /\ ~StrTruthy(API_KEY)
    /\ pc = "returned"
    /\ status_message = MissingKeyStatus
    /\ Len(trace) = 1

\* C2: when attempt N is the first to return a JSON document, the call
\* returns the success status and the decoded document, N attempts were
\* made, nothing follows the Nth, and the N-1 sleeps before it add up to
\* 2^(N-1) - 1 seconds.
C2_SuccessOnAttemptN ==
    \A n \in 1..Len(Attempts) :
        GotJson(Attempts[n]) =>
            /\ n = Len(Attempts)
            /\ n <= MAX_RETRIES
            /\ \A k \in 1..(n - 1) : ~GotJson(Attempts[k])
            /\ trace[Len(trace)] = Attempts[n]
            /\ HasReturned
            /\ status_message = SuccessStatus
            /\ itinerary_data = Decode(Attempts[n].outcome.text.doc)
            /\ Len(Sleeps) = n - 1
            /\ SleptSeconds = (2 ^ (n - 1)) - 1

C2_Witness ==
    /\ Len(Attempts) = 5
    /\ GotJson(Attempts[5])
    /\ FailureKind(Attempts[1]) = "malformed"
    /\ FailureKind(Attempts[2]) = "transport"
    /\ SleptSeconds = 15
    /\ status_message = SuccessStatus

\* C3: when all five attempts fail, the effects after the client is built
\* are attempt, sleep 1, attempt, sleep 2, attempt, sleep 4, attempt,
\* sleep 8, attempt: four sleeps, each between two attempts, none after the
\* last, whatever the failures were.
C3_BackoffSchedule ==
    (AllFailed /\ pc \in {"exhausted", "returned", "exit"}) =>
        /\ Len(Sleeps) = 4
        /\ [k \in 1..4 |-> Sleeps[k].seconds] = << 1, 2, 4, 8 >>
        /\ Len(Effects) = 10
        /\ \A k \in 1..5 :
              /\ Effects[2 * k].ev = "generate_content"
              /\ Effects[2 * k].attempt = k - 1
        /\ \A k \in 1..4 : Effects[2 * k + 1] = Sleeps[k]

C3_Witness ==
    /\ AllFailed
    /\ pc = "returned"
    /\ FailureKind(Attempts[1]) = "transport"
    /\ FailureKind(Attempts[2]) = "malformed"
    /\ FailureKind(Attempts[3]) = "none"
    /\ Len(Sleeps) = 4

\* C4: when the attempts are exhausted the call returns None and the
\* failure status that ends with the error of the fifth attempt: its kind,
\* its number and its text, not an earlier attempt's and not the
\* placeholder.
C4_LastErrorReported ==
    (AllFailed /\ HasReturned) =>
        /\ itinerary_data = None
        /\ StartsWith(status_message, ExhaustedPrefix)
        /\ LET a == Attempts[MAX_RETRIES]
               head == IF FailureKind(a) = "malformed"
                       THEN FormatErrorHead \o << "5" >> \o FormatErrorTail
                       ELSE ConnectionErrorHead \o << "5" >> \o ConnectionErrorTail
           IN  status_message = ExhaustedPrefix \o head \o FailureDetail(a)
        /\ ~Contains(status_message, UnknownError)

C4_Witness ==
    /\ AllFailed
    /\ HasReturned
    /\ FailureKind(Attempts[4]) = "transport"
    /\ FailureKind(Attempts[5]) = "malformed"
    /\ EndsWith(status_message, ExpectingValue)

\* C5: a call makes at most five attempts, and once made it returns: with
\* the success of some attempt or, after the fifth, with the exhaustion
\* failure (or, before any attempt, with a configuration error).
C5_BoundedAndTerminates ==
    /\ [](Len(Attempts) <= 5)
    /\ [](HasReturned /\ Len(Attempts) > 0 =>
            \/ status_message = SuccessStatus
            \/ Len(Attempts) = 5 /\ StartsWith(status_message, ExhaustedPrefix))
    /\ (pc = "entry") ~> HasReturned

C5_Witness ==
    /\ HasReturned
    /\ Len(Attempts) = 5
    /\ StartsWith(status_message, ExhaustedPrefix)
    /\ caller = "direct"

\* C6: an attempt whose body is not a JSON document of the itinerary schema
\* never ends the call with success: it is followed by the backoff and the
\* next attempt, or by the exhaustion failure.
C6_OnlyItinerariesSucceed ==
    \A n \in 1..Len(Attempts) :
        (~Attempts[n].outcome.raised /\ ~GotItinerary(Attempts[n])) =>
            ~(n = Len(Attempts) /\ status_message = SuccessStatus)

\* C7: a returned pair has data exactly when its status is the success
\* message.
C7_AllOrNothing ==
    HasReturned => (itinerary_data # None <=> status_message = SuccessStatus)

\* C8: main calls the generator only with a non-empty destination, a day
\* count in 1..14 and non-empty interests; a rejected submission has an
\* empty field and causes no call.
C8_FormValidated ==
    /\ \A k \in 1..Len(trace) :
          (trace[k].ev = "generate_student_itinerary" /\ trace[k].by = "main") =>
              /\ trace[k].request[1] # << >>
              /\ trace[k].request[2] \in 1..14
              /\ trace[k].request[3] # << >>
    /\ HasNotice("warning") =>
          /\ trace = << >>
          /\ status_message = NotReturned
          /\ destination = << >> \/ interests = << >>

C8_Witness ==
    /\ caller = "main"
    /\ Len(Attempts) = 1
    /\ Attempts[1].request = << Rome, 14, Art >>

-----------------------------------------------------------------------------
(* The renderer's sums. *)

\* The costs of all activities of all days, one after the other; an
\* activity without a cost contributes 0.
RECURSIVE AllCosts(_)
AllCosts(itinerary) ==
    IF itinerary = << >> THEN << >>
    ELSE LET plan == Head(itinerary).plan
         IN  [j \in 1..Len(plan) |->
                 IF "estimated_cost_usd" \in DOMAIN plan[j]
                 THEN plan[j].estimated_cost_usd ELSE 0]
             \o AllCosts(Tail(itinerary))

\* The costs of one day, likewise.
DayCosts(day_plan) == AllCosts(<< day_plan >>)

\* An amount in eighths of a dollar that is a whole number of cents.
WholeCents(e) == (25 * e) % 2 = 0

\* e/8 dollars to the nearest cent, a half cent to the even cent.
NearestCent(e) ==
    CHOOSE c \in 0..(13 * e) :
        /\ (2 * c - 25 * e) \in -1..1
        /\ (2 * c - 25 * e) # 0 => c % 2 = 0

Shown == caller = "display" /\ pc = "exit" /\ Truthy(itinerary_data)

ShownDays == SelectSeq(ui, LAMBDA el : el.kind = "expander")

ShownTotal == SelectSeq(ui, LAMBDA el : el.kind = "total")

\* C9 as stated: the displayed total is the sum of all costs and is the
\* sum of the displayed per-day subtotals.
C9_DisplayedTotalIsSumOfDisplayed ==
    Shown =>
        LET days_ == itinerary_data.items
        IN  /\ Len(ShownTotal) = 1
            /\ ShownTotal[1].amount = Money(NearestCent(Sum(AllCosts(days_))))
            /\ ShownTotal[1].amount =
                  Money(Sum([i \in 1..Len(days_) |-> NearestCent(Sum(DayCosts(days_[i])))]))

\* C9, amended: the displayed total is the sum of all costs to the nearest
\* cent, each displayed subtotal is its day's sum to the nearest cent, and
\* the displayed subtotals add up to the displayed total when every cost is
\* a whole number of cents.
C9_TotalsRoundedSeparately ==
    Shown =>
        LET days_ == itinerary_data.items
        IN  /\ Len(ShownTotal) = 1
            /\ Len(ShownDays) = Len(days_)
            /\ ShownTotal[1].amount = Money(NearestCent(Sum(AllCosts(days_))))
            /\ \A i \in 1..Len(days_) :
                  ShownDays[i].amount = Money(NearestCent(Sum(DayCosts(days_[i]))))
            /\ (\A k \in 1..Len(AllCosts(days_)) : WholeCents(AllCosts(days_)[k])) =>
                  ShownTotal[1].amount =
                     Money(Sum([i \in 1..Len(days_) |-> NearestCent(Sum(DayCosts(days_[i])))]))

C9_Witness ==
    /\ Shown
    /\ Len(itinerary_data.items) = 2
    /\ \E i \in 1..2 : \E j \in 1..Len(itinerary_data.items[i].plan) :
          "estimated_cost_usd" \notin DOMAIN itinerary_data.items[i].plan[j]
    /\ ShownTotal[1].amount = << "$", "0", ".", "5", "0" >>
    /\ ShownDays[1].amount = << "$", "0", ".", "2", "5" >>

\* C10: main shows the success notice exactly when the generator returned
\* its success outcome, and shows every failure outcome as an error notice.
C10_NoticeMatchesOutcome ==
    (caller = "main" /\ pc = "exit" /\ status_message # NotReturned) =>
        /\ HasNotice("success") <=> status_message = SuccessStatus
        /\ HasNotice("error") <=> status_message # SuccessStatus

====
